---- MODULE Spec2Model ----
(***************************************************************************)
(* Model of src/src/Quasigroup.ts (fp-ts): the Quasigroup interface, the   *)
(* combinators reverse, filterFirst, filterSecond and endo, and the fold   *)
(* utilities concatAll, leftInvAll and rightInv.                           *)
(*                                                                         *)
(* A Magma<A> is a record [concat |-> c] and a Quasigroup<A> a record      *)
(* [concat |-> c, leftInv |-> l, rightInv |-> r]; each field is a function *)
(* on pairs <<x, y>> of the carrier.  The library is stateless: the state  *)
(* of the model is the call a client has made and the value it returned.   *)
(***************************************************************************)
EXTENDS Integers, Sequences, FiniteSets

VARIABLES call, result

vars == <<call, result>>

-----------------------------------------------------------------------------
(* Bounds of the explored inputs *)

\* the finite carrier is A = 0 .. NElem-1
NElem == 3
\* longest array handed to a fold over the finite carrier
MaxLen == 3
\* the numeric folds take arrays over 1 .. MaxNum
MaxNum == 4
\* longest array handed to a numeric fold
MaxNumLen == 4
\* the numeric folds start from -MaxStart .. MaxStart
MaxStart == 1

A == 0 .. (NElem - 1)

Pairs == A \X A

Arrays == UNION {[1 .. n -> A] : n \in 0 .. MaxLen}

NumArrays == UNION {[1 .. n -> 1 .. MaxNum] : n \in 0 .. MaxNumLen}

-----------------------------------------------------------------------------
(* The implementations a caller supplies *)

\* a binary operation on A: (x, y) => (a*x + b*y + c) mod NElem
Op(a, b, c) == [p \in Pairs |-> (a * p[1] + b * p[2] + c) % NElem]

\* Magma<A>: any record with a binary concat
Magmas == {[concat |-> Op(a, b, c)] : a \in A, b \in A, c \in A}

\* Endomorphism<A>: x => (a*x + c) mod NElem
Endomorphisms == {[x \in A |-> (a * x + c) % NElem] : a \in A, c \in A}

\* Predicate<A>
Predicates == [A -> BOOLEAN]

\* the equalities of the module documentation, for all x and y of A:
\* concat(x, leftInv(x, y)) = leftInv(x, concat(x, y))
\*   = concat(rightInv(y, x), x) = rightInv(concat(y, x), x) = y
IsLawful(Q) ==
  \A x \in A, y \in A :
    /\ Q.concat[<<x, Q.leftInv[<<x, y>>]>>] = y
    /\ Q.leftInv[<<x, Q.concat[<<x, y>>]>>] = y
    /\ Q.concat[<<Q.rightInv[<<y, x>>], x>>] = y
    /\ Q.rightInv[<<Q.concat[<<y, x>>], x>>] = y

\* concat is a Latin square: every equation c(x, z) = y and c(z, x) = y
\* has exactly one solution z
IsLatin(c) ==
  \A x \in A, y \in A :
    /\ Cardinality({z \in A : c[<<x, z>>] = y}) = 1
    /\ Cardinality({z \in A : c[<<z, x>>] = y}) = 1

\* the quasigroup of a Latin square: leftInv and rightInv solve the equations
Divisions(c) ==
  [concat |-> c,
   leftInv |-> [p \in Pairs |-> CHOOSE z \in A : c[<<p[1], z>>] = p[2]],
   rightInv |-> [p \in Pairs |-> CHOOSE z \in A : c[<<z, p[2]>>] = p[1]]]

LawfulQuasigroups ==
  {Divisions(M.concat) : M \in {L \in Magmas : IsLatin(L.concat)}}

\* implementations of the interface whose three operations are unrelated
\* (the interface is not checked at run time)
UncheckedQuasigroups ==
  {[concat |-> Op(a, b, c), leftInv |-> Op(b, c, a), rightInv |-> Op(c, a, b)] :
     a \in A, b \in A, c \in A}

\* Quasigroup<A>
Quasigroups == LawfulQuasigroups \cup UncheckedQuasigroups

\* quasigroupNumber of the module documentation, over the integers
NumberQuasigroup ==
  [concat |-> [p \in Int \X Int |-> p[1] + p[2]],
   leftInv |-> [p \in Int \X Int |-> p[2] - p[1]],
   rightInv |-> [p \in Int \X Int |-> p[1] - p[2]]]

-----------------------------------------------------------------------------
(* combinators *)

\* reverse with concat left in the caller's argument order
reverseKeepsConcatOrder(Q) ==
  [concat |-> [p \in DOMAIN Q.concat |-> Q.concat[<<p[1], p[2]>>]],
   leftInv |-> [p \in DOMAIN Q.leftInv |-> Q.rightInv[<<p[1], p[2]>>]],
   rightInv |-> [p \in DOMAIN Q.rightInv |-> Q.leftInv[<<p[1], p[2]>>]]]

\* reverse with rightInv delegating to Q.rightInv
reverseKeepsRightInv(Q) ==
  [concat |-> [p \in DOMAIN Q.concat |-> Q.concat[<<p[2], p[1]>>]],
   leftInv |-> [p \in DOMAIN Q.leftInv |-> Q.rightInv[<<p[1], p[2]>>]],
   rightInv |-> [p \in DOMAIN Q.rightInv |-> Q.rightInv[<<p[1], p[2]>>]]]

\* reverse with the arguments of leftInv and rightInv swapped as well
reverseSwapsInverseArguments(Q) ==
  [concat |-> [p \in DOMAIN Q.concat |-> Q.concat[<<p[2], p[1]>>]],
   leftInv |-> [p \in DOMAIN Q.leftInv |-> Q.rightInv[<<p[2], p[1]>>]],
   rightInv |-> [p \in DOMAIN Q.rightInv |-> Q.leftInv[<<p[2], p[1]>>]]]

reverse(Q) ==
  [concat |-> [p \in DOMAIN Q.concat |-> Q.concat[<<p[2], p[1]>>]],
   leftInv |-> [p \in DOMAIN Q.leftInv |-> Q.rightInv[<<p[1], p[2]>>]],
   rightInv |-> [p \in DOMAIN Q.rightInv |-> Q.leftInv[<<p[1], p[2]>>]]]

\* filterFirst returning the rejected first argument
filterFirstReturnsFirst(predicate, M) ==
  [concat |-> [p \in DOMAIN M.concat |->
                 IF predicate[p[1]] THEN M.concat[<<p[1], p[2]>>] ELSE p[1]]]

filterFirst(predicate, M) ==
  [concat |-> [p \in DOMAIN M.concat |->
                 IF predicate[p[1]] THEN M.concat[<<p[1], p[2]>>] ELSE p[2]]]

filterSecond(predicate, M) ==
  [concat |-> [p \in DOMAIN M.concat |->
                 IF predicate[p[2]] THEN M.concat[<<p[1], p[2]>>] ELSE p[1]]]

\* endo transforming the first argument only
endoFirstOnly(f, Q) ==
  [concat |-> [p \in DOMAIN Q.concat |-> Q.concat[<<f[p[1]], p[2]>>]],
   leftInv |-> [p \in DOMAIN Q.leftInv |-> Q.leftInv[<<f[p[1]], p[2]>>]],
   rightInv |-> [p \in DOMAIN Q.rightInv |-> Q.rightInv[<<f[p[1]], p[2]>>]]]

\* endo transforming the result of Q's operation instead of its arguments
endoAfter(f, Q) ==
  [concat |-> [p \in DOMAIN Q.concat |-> f[Q.concat[<<p[1], p[2]>>]]],
   leftInv |-> [p \in DOMAIN Q.leftInv |-> f[Q.leftInv[<<p[1], p[2]>>]]],
   rightInv |-> [p \in DOMAIN Q.rightInv |-> f[Q.rightInv[<<p[1], p[2]>>]]]]

endo(f, Q) ==
  [concat |-> [p \in DOMAIN Q.concat |-> Q.concat[<<f[p[1]], f[p[2]]>>]],
   leftInv |-> [p \in DOMAIN Q.leftInv |-> Q.leftInv[<<f[p[1]], f[p[2]]>>]],
   rightInv |-> [p \in DOMAIN Q.rightInv |-> Q.rightInv[<<f[p[1]], f[p[2]]>>]]]

-----------------------------------------------------------------------------
(* utils *)

\* Array.prototype.reduce(callbackfn, initialValue) from index k on: the
\* callback receives the accumulated value first and the element second
RECURSIVE reduce(_, _, _, _)
reduce(callbackfn, accumulator, as, k) ==
  IF k > Len(as)
    THEN accumulator
    ELSE reduce(callbackfn, callbackfn[<<accumulator, as[k]>>], as, k + 1)

\* concatAll with the element first and the accumulator second
concatAllElementFirst(Q, startWith, as) ==
  reduce([p \in DOMAIN Q.concat |-> Q.concat[<<p[2], p[1]>>]], startWith, as, 1)

concatAll(Q, startWith, as) ==
  reduce([p \in DOMAIN Q.concat |-> Q.concat[<<p[1], p[2]>>]], startWith, as, 1)

\* leftInvAll with the element first and the accumulator second
leftInvAllElementFirst(Q, startWith, as) ==
  reduce([p \in DOMAIN Q.leftInv |-> Q.leftInv[<<p[2], p[1]>>]], startWith, as, 1)

leftInvAll(Q, startWith, as) ==
  reduce([p \in DOMAIN Q.leftInv |-> Q.leftInv[<<p[1], p[2]>>]], startWith, as, 1)

\* the rightInv fold calling Q.leftInv
rightInvCallsLeftInv(Q, startWith, as) ==
  reduce([p \in DOMAIN Q.leftInv |-> Q.leftInv[<<p[1], p[2]>>]], startWith, as, 1)

rightInv(Q, startWith, as) ==
  reduce([p \in DOMAIN Q.rightInv |-> Q.rightInv[<<p[1], p[2]>>]], startWith, as, 1)

-----------------------------------------------------------------------------
(* Calls over the finite carrier *)

Idle == [name |-> "idle"]

Init ==
  /\ call = Idle
  /\ result = <<>>

Reverse ==
  /\ call.name = "idle"
  /\ \E Q \in Quasigroups :
       /\ call' = [name |-> "reverse", Q |-> Q]
       /\ result' = reverse(Q)

ReverseTwice ==
  /\ call.name = "idle"
  /\ \E Q \in Quasigroups :
       /\ call' = [name |-> "reverse.reverse", Q |-> Q]
       /\ result' = reverse(reverse(Q))

Endo ==
  /\ call.name = "idle"
  /\ \E f \in Endomorphisms, Q \in Quasigroups :
       /\ call' = [name |-> "endo", f |-> f, Q |-> Q]
       /\ result' = endo(f, Q)

EndoTwice ==
  /\ call.name = "idle"
  /\ \E f \in Endomorphisms, g \in Endomorphisms, Q \in Quasigroups :
       /\ call' = [name |-> "endo.endo", f |-> f, g |-> g, Q |-> Q]
       /\ result' = endo(g, endo(f, Q))

FilterFirst ==
  /\ call.name = "idle"
  /\ \E predicate \in Predicates, M \in Magmas :
       /\ call' = [name |-> "filterFirst", predicate |-> predicate, M |-> M]
       /\ result' = filterFirst(predicate, M)

FilterSecond ==
  /\ call.name = "idle"
  /\ \E predicate \in Predicates, M \in Magmas :
       /\ call' = [name |-> "filterSecond", predicate |-> predicate, M |-> M]
       /\ result' = filterSecond(predicate, M)

ConcatAll ==
  /\ call.name = "idle"
  /\ \E Q \in Quasigroups, startWith \in A, as \in Arrays :
       /\ call' = [name |-> "concatAll", Q |-> Q, startWith |-> startWith, as |-> as]
       /\ result' = concatAll(Q, startWith, as)

LeftInvAll ==
  /\ call.name = "idle"
  /\ \E Q \in Quasigroups, startWith \in A, as \in Arrays :
       /\ call' = [name |-> "leftInvAll", Q |-> Q, startWith |-> startWith, as |-> as]
       /\ result' = leftInvAll(Q, startWith, as)

RightInv ==
  /\ call.name = "idle"
  /\ \E Q \in Quasigroups, startWith \in A, as \in Arrays :
       /\ call' = [name |-> "rightInv", Q |-> Q, startWith |-> startWith, as |-> as]
       /\ result' = rightInv(Q, startWith, as)

\* the array in reverse order
Reversed(as) == [i \in 1 .. Len(as) |-> as[Len(as) + 1 - i]]

\* concatAll, then the rightInv fold of the total over the reversed array
ConcatAllThenRightInv ==
  /\ call.name = "idle"
  /\ \E Q \in Quasigroups, startWith \in A, as \in Arrays :
       /\ call' = [name |-> "concatAll.rightInv", Q |-> Q,
                   startWith |-> startWith, as |-> as]
       /\ result' = rightInv(Q, concatAll(Q, startWith, as), Reversed(as))

\* the client drops the returned value
Return ==
  /\ call.name # "idle"
  /\ call' = Idle
  /\ result' = <<>>

Next ==
  \/ Reverse
  \/ ReverseTwice
  \/ Endo
  \/ EndoTwice
  \/ FilterFirst
  \/ FilterSecond
  \/ ConcatAll
  \/ LeftInvAll
  \/ RightInv
  \/ ConcatAllThenRightInv
  \/ Return

Spec == Init /\ [][Next]_vars

-----------------------------------------------------------------------------
(* Calls on the numeric quasigroup *)

\* the instance a numeric call names
Instance(tag) ==
  IF tag = "N" THEN NumberQuasigroup ELSE reverse(NumberQuasigroup)

Instances == {"N", "reverse(N)"}

NumConcatAll ==
  /\ call.name = "idle"
  /\ \E Q \in Instances, startWith \in (-MaxStart) .. MaxStart, as \in NumArrays :
       /\ call' = [name |-> "concatAll", Q |-> Q, startWith |-> startWith, as |-> as]
       /\ result' = concatAll(Instance(Q), startWith, as)

NumLeftInvAll ==
  /\ call.name = "idle"
  /\ \E Q \in Instances, startWith \in (-MaxStart) .. MaxStart, as \in NumArrays :
       /\ call' = [name |-> "leftInvAll", Q |-> Q, startWith |-> startWith, as |-> as]
       /\ result' = leftInvAll(Instance(Q), startWith, as)

NumRightInv ==
  /\ call.name = "idle"
  /\ \E Q \in Instances, startWith \in (-MaxStart) .. MaxStart, as \in NumArrays :
       /\ call' = [name |-> "rightInv", Q |-> Q, startWith |-> startWith, as |-> as]
       /\ result' = rightInv(Instance(Q), startWith, as)

NextNum ==
  \/ NumConcatAll
  \/ NumLeftInvAll
  \/ NumRightInv
  \/ Return

SpecNum == Init /\ [][NextNum]_vars

-----------------------------------------------------------------------------
(* Properties *)

Operations == {"concat", "leftInv", "rightInv"}

\* Q's concat depends on the order of its arguments and its two inverses differ
Asymmetric(Q) ==
  /\ \E x \in A, y \in A : Q.concat[<<x, y>>] # Q.concat[<<y, x>>]
  /\ \E x \in A, y \in A : Q.leftInv[<<x, y>>] # Q.leftInv[<<y, x>>]
  /\ \E x \in A, y \in A : Q.leftInv[<<x, y>>] # Q.rightInv[<<x, y>>]

\* the array without its last element
Front(as) == SubSeq(as, 1, Len(as) - 1)

\* C1: for every lawful quasigroup Q over A, reverse(Q) is again a lawful
\* quasigroup over A (its concat, leftInv and rightInv satisfy the equalities
\* of the module documentation for all x and y).
ReversePreservesLaw ==
  (call.name = "reverse" /\ IsLawful(call.Q)) => IsLawful(result)

\* C2, as stated: endo(g)(endo(f)(Q)).concat(x, y) = Q.concat(g(f(x)), g(f(y)))
\* for all endomorphisms f and g and all x and y.
EndoTwiceAppliesFThenG ==
  call.name = "endo.endo" =>
    \A x \in A, y \in A :
      result.concat[<<x, y>>]
        = call.Q.concat[<<call.g[call.f[x]], call.g[call.f[y]]>>]

\* C2, amended: endo(g)(endo(f)(Q)).concat(x, y) = Q.concat(f(g(x)), f(g(y)))
\* for all endomorphisms f and g and all x and y: the outer transform g is
\* applied first and the inner transform f second.
EndoTwiceAppliesGThenF ==
  call.name = "endo.endo" =>
    \A x \in A, y \in A :
      result.concat[<<x, y>>]
        = call.Q.concat[<<call.f[call.g[x]], call.f[call.g[y]]>>]

\* endo(g)(endo(f)(Q)) was built from transforms whose two compositions give
\* different results through Q.concat
EndoTwiceOrderMatters ==
  /\ call.name = "endo.endo"
  /\ \E x \in A, y \in A :
       /\ call.f[call.g[x]] # call.g[call.f[x]]
       /\ result.concat[<<x, y>>]
            # call.Q.concat[<<call.g[call.f[x]], call.g[call.f[y]]>>]

ReverseInvolution ==
  call.name = "reverse.reverse" =>
    \A op \in Operations : \A x \in A, y \in A :
      result[op][<<x, y>>] = call.Q[op][<<x, y>>]

\* reverse was applied twice to a quasigroup that a single reverse changes
ReverseTwiceOfAsymmetric ==
  /\ call.name = "reverse.reverse"
  /\ Asymmetric(call.Q)
  /\ reverse(call.Q) # call.Q

\* C5: every operation op of endo(f)(Q) satisfies
\* endo(f)(Q).op(x, y) = Q.op(f(x), f(y)), for every f, Q, x and y.
EndoPreTransforms ==
  call.name = "endo" =>
    \A op \in Operations : \A x \in A, y \in A :
      result[op][<<x, y>>] = call.Q[op][<<call.f[x], call.f[y]>>]

\* endo was applied with a transform that changes what every operation of an
\* asymmetric quasigroup returns
EndoChangesOperations ==
  /\ call.name = "endo"
  /\ Asymmetric(call.Q)
  /\ \A op \in Operations : result[op] # call.Q[op]
  /\ \E x \in A, y \in A : call.f[x] # x /\ call.f[y] = y

\* C6: filterFirst(p)(M).concat(x, y) is M.concat(x, y) when p(x) and y
\* otherwise; filterSecond(p)(M).concat(x, y) is M.concat(x, y) when p(y) and
\* x otherwise; for every predicate p, magma M, x and y.
FilterPassThrough ==
  /\ call.name = "filterFirst" =>
       \A x \in A, y \in A :
         result.concat[<<x, y>>] =
           IF call.predicate[x] THEN call.M.concat[<<x, y>>] ELSE y
  /\ call.name = "filterSecond" =>
       \A x \in A, y \in A :
         result.concat[<<x, y>>] =
           IF call.predicate[y] THEN call.M.concat[<<x, y>>] ELSE x

\* filterFirst was applied with a predicate that accepts some first arguments
\* and rejects others, on a magma whose concat the skip differs from
FilterFirstSkipsAndDelegates ==
  /\ call.name = "filterFirst"
  /\ \E x \in A, y \in A :
       /\ ~call.predicate[x]
       /\ call.M.concat[<<x, y>>] # y
       /\ x # y
  /\ \E x \in A, y \in A :
       /\ call.predicate[x]
       /\ call.M.concat[<<x, y>>] # y

\* C7: each fold is a strict left fold with the accumulator first: the fold
\* of the empty array is startWith, the fold of an array followed by e is
\* op(fold of the array, e), and the fold of [a, b] is op(op(startWith, a), b).
FoldsAreLeftFolds ==
  /\ (call.name \in {"concatAll", "leftInvAll", "rightInv"} /\ call.as = <<>>)
       => result = call.startWith
  /\ (call.name = "concatAll" /\ call.as # <<>>) =>
       result = call.Q.concat[<<concatAll(call.Q, call.startWith, Front(call.as)),
                                call.as[Len(call.as)]>>]
  /\ (call.name = "leftInvAll" /\ call.as # <<>>) =>
       result = call.Q.leftInv[<<leftInvAll(call.Q, call.startWith, Front(call.as)),
                                 call.as[Len(call.as)]>>]
  /\ (call.name = "rightInv" /\ call.as # <<>>) =>
       result = call.Q.rightInv[<<rightInv(call.Q, call.startWith, Front(call.as)),
                                  call.as[Len(call.as)]>>]
  /\ (call.name \in {"concatAll", "leftInvAll", "rightInv"} /\ Len(call.as) = 2) =>
       LET op == call.Q[IF call.name = "concatAll" THEN "concat"
                        ELSE IF call.name = "leftInvAll" THEN "leftInv"
                        ELSE "rightInv"]
       IN  result = op[<<op[<<call.startWith, call.as[1]>>], call.as[2]>>]

\* concatAll folded [a, b] with a concat for which the two other orders,
\* op(op(startWith, b), a) and op(a, op(b, startWith)), give another total
FoldOrderMatters ==
  /\ call.name = "concatAll"
  /\ Len(call.as) = 2
  /\ LET op == call.Q.concat
         s == call.startWith
         a == call.as[1]
         b == call.as[2]
     IN  /\ result # op[<<op[<<s, b>>], a>>]
         /\ result # op[<<a, op[<<b, s>>]>>]

\* C10: for every lawful quasigroup Q, startWith and array as, the rightInv
\* fold of concatAll(Q)(startWith)(as) over as in reverse order is startWith.
RightInvUndoesConcatAll ==
  (call.name = "concatAll.rightInv" /\ IsLawful(call.Q)) =>
    result = call.startWith

\* the round trip ran on a lawful, asymmetric quasigroup over an array of the
\* greatest length whose total is not startWith
RoundTripOfLawful ==
  /\ call.name = "concatAll.rightInv"
  /\ IsLawful(call.Q)
  /\ Asymmetric(call.Q)
  /\ Len(call.as) = MaxLen
  /\ concatAll(call.Q, call.startWith, call.as) # call.startWith
  /\ result = call.startWith

\* C8: on the numeric quasigroup, concatAll from 0 over [1, 2, 3] is 6,
\* leftInvAll from 0 over [1, 2, 3, 4] is 2 and the rightInv fold from 0 over
\* [1, 2, 3] is -6.
NumericScenario ==
  (call.name # "idle" /\ call.Q = "N" /\ call.startWith = 0) =>
    /\ (call.name = "concatAll" /\ call.as = <<1, 2, 3>>) => result = 6
    /\ (call.name = "leftInvAll" /\ call.as = <<1, 2, 3, 4>>) => result = 2
    /\ (call.name = "rightInv" /\ call.as = <<1, 2, 3>>) => result = -6

\* leftInvAll ran on the numeric quasigroup from 0 over [1, 2, 3, 4]
NumericLeftInvAllRan ==
  /\ call.name = "leftInvAll"
  /\ call.Q = "N"
  /\ call.startWith = 0
  /\ call.as = <<1, 2, 3, 4>>
  /\ result = 2

\* C9: on the dual of the numeric quasigroup, from 0 over [1, 2, 3],
\* concatAll is 6, leftInvAll is -6 and the rightInv fold is 2.
ReverseNumericScenario ==
  (call.name # "idle" /\ call.Q = "reverse(N)" /\ call.startWith = 0
     /\ call.as = <<1, 2, 3>>) =>
    /\ call.name = "concatAll" => result = 6
    /\ call.name = "leftInvAll" => result = -6
    /\ call.name = "rightInv" => result = 2

\* leftInvAll ran on the dual of the numeric quasigroup from 0 over [1, 2, 3]
ReverseNumericLeftInvAllRan ==
  /\ call.name = "leftInvAll"
  /\ call.Q = "reverse(N)"
  /\ call.startWith = 0
  /\ call.as = <<1, 2, 3>>
  /\ result = -6

====
